---- MODULE Spec2Model ----
(***************************************************************************)
(* Batch ingestion orchestrator of src/src/main_processor.py               *)
(* (DocumentProcessor), with the parts of pdf_processor.py,                *)
(* config_manager.py, data_extractor.py and elasticsearch_manager.py that  *)
(* its control flow depends on.                                            *)
(*                                                                         *)
(* run_processing is a coroutine on a single-threaded asyncio event loop.  *)
(* Each manifest item is a task (process_with_semaphore).  A task keeps    *)
(* the loop from the moment it is picked until it awaits something that    *)
(* is not ready.  _download_pdf is a plain blocking call (requests.get)    *)
(* and _process_single_pdf contains no await, so the only await of a task  *)
(* that can suspend it is the acquisition of a semaphore whose value is 0. *)
(* The variable cur names the task that holds the loop (0: the loop is     *)
(* free, run_processing or the next task may be picked).                   *)
(***************************************************************************)
EXTENDS Naturals, Integers, Sequences, FiniteSets, TLC

\* ------------------------------------------------------------------ bounds
MaxItems == 2        \* longest manifest / most PDF files in pdf_dir
MaxBatch == 2        \* largest --batch-size tried (smallest is 1)
MaxWorkers == 2      \* largest --max-workers tried (smallest is 0)
MaxRuns == 2         \* runs started on one DocumentProcessor instance (SpecRerun)
RerunItems == 1      \* longest manifest / most PDF files in SpecRerun
MaxDocIds == 2       \* ids the callers of the store pass (SpecStore)
MaxPages == 2        \* most pages of a PDF handed to validate_pdf
MaxTextLen == 5      \* longest text handed to _clean_text, in characters
MaxWords == 6        \* texts handed to classify_themes have up to 40 times as many words
MaxKeywords == 2     \* most distinct keywords of a category found in a text
MaxOccurrences == 3  \* most occurrences of a category's keywords in a text
MaxEntities == 3     \* longest entity list handed to a deduplication
MaxPartEntries == 2  \* most entries of date_config['part_map']
MaxCenturyKeys == 2  \* most entries of date_config['century_map']

\* ------------------------------------------------------- program constants
MinMeaningfulText == 50    \* extract_text raises below this length
MinTextLen == 100          \* _process_single_pdf skips below this length
DefaultBatchSize == 10     \* default of the batch_size parameter
DefaultMaxWorkers == 4     \* default of the max_workers parameter
max_file_size == 52428800  \* PDFProcessor.max_file_size: 50 * 1024 * 1024
MinPrimaryText == 100      \* extract_text falls back to PyPDF2 below this length
MaxEmptyLines == 2         \* _clean_text keeps this many consecutive empty lines
FuzzThreshold == 80        \* a fuzzy score counts as a match above this
DedupBucket == 50          \* _deduplicate_dates groups positions by this width

VARIABLES
    config,        \* the configuration directory as found on disk
    pdf_dir,       \* set of PDF files present in self.pdf_dir (the cache)
    phase,         \* where the program is: construction, setup, run, end
    source_data,   \* self.source_data: the manifest records
    mode,          \* "manifest" (run_processing) or "local" (process_local_pdfs)
    work,          \* work[i]: the PDF file of item i of the current run
    stats,         \* self.stats
    pc,            \* pc[i]: per-item state of item i of the current run
    calls,         \* calls[i]: the operations performed on item i, in order
    ids,           \* ids[i]: document id item i was submitted under, or NoId
    prev_ids,      \* ids of the previous run on this instance
    cache_at_start,\* pdf_dir as it was when the current run started
    sem,           \* value of the asyncio.Semaphore
    batch_size,    \* batch_size argument of the current run
    max_workers,   \* max_workers argument of the current run
    offset,        \* loop variable i of the batch loop; -1 before the loop
    cur,           \* item whose code holds the event loop; 0 when none
    runs,          \* number of runs started on this instance
    es,            \* the documents of the Elasticsearch index: hits (id, source)
    arg,           \* the call under study: the function, its arguments and,
                   \* for a call to the store, the reply of the client
    ret            \* what that call returned or raised; NotCalled before it

\* The state of a DocumentProcessor and of its run.
processor == <<config, pdf_dir, phase, source_data, mode, work, stats, pc,
               calls, ids, prev_ids, cache_at_start, sem, batch_size,
               max_workers, offset, cur, runs>>

vars == <<processor, es, arg, ret>>

\* ------------------------------------------------------------ environment
ConfigFiles == {"date_config.json", "names.json", "places.txt", "themes.json"}

\* A manifest record as process_with_semaphore sees it.  pdf_links is a
\* string ("url"), absent/empty ("missing") or a truthy non-string such as a
\* list ("list"); _id is {"$oid": ...} ("oid"), absent or without "$oid"
\* ("missing"), or present but not a dict, e.g. null or a string ("notdict").
ItemShapes ==
    { [pdf_links |-> "url",     oid |-> "oid"],
      [pdf_links |-> "missing", oid |-> "oid"],
      [pdf_links |-> "url",     oid |-> "missing"],
      [pdf_links |-> "list",    oid |-> "oid"],
      [pdf_links |-> "url",     oid |-> "notdict"] }

FileIds == 1..MaxItems

ManifestsUpTo(k) == UNION { [1..n -> ItemShapes] : n \in 0..k }

Manifests == ManifestsUpTo(MaxItems)

\* Lengths of the normalized text a PDF can yield (around both thresholds).
TextLens == {0, MinMeaningfulText - 1, MinMeaningfulText,
             MinTextLen - 1, MinTextLen}

NoId == <<"none">>

Terminal == {"Submitted", "Skipped", "Failed"}
\* A task that ended: in a terminal state, or by an exception that escaped it.
Ended == Terminal \cup {"Raised"}
InFlight == {"Admitted", "Resolved", "Acquired", "Validated",
             "TextExtracted", "EntitiesExtracted"}

NItems == Len(work)
Items == 1..NItems

\* list(self.pdf_dir.glob("*.pdf")): the files of the directory as a list.  The
\* order of the listing is the file system's; files are told apart by nothing
\* but their name, so the listing in ascending order stands for every order.
Listing(S) ==
    CHOOSE f \in [1..Cardinality(S) -> S] :
        \A a, b \in 1..Cardinality(S) : a < b => f[a] < f[b]

\* ------------------------------------------------------------ DocumentProcessor.__init__
\* ConfigManager.__init__ raises when the directory is missing; DataExtractor.__init__
\* loads the four files and lets every load error propagate.
\* Variant: the theme taxonomy is loaded lazily, not at construction.
ConfigLoads_skipThemes(c) == c.dir /\ (ConfigFiles \ {"themes.json"}) \subseteq c.files

ConfigLoads(c) == c.dir /\ ConfigFiles \subseteq c.files

EmptyStats == [total_files |-> 0, processed |-> 0, errors |-> 0, skipped |-> 0,
               errors_detail |-> <<>>]

\* No call is under study: the orchestrator specifications leave arg and ret
\* alone.
NoCall == [fn |-> "none"]

NotCalled == [called |-> FALSE, raised |-> FALSE, value |-> "none"]

\* A DocumentProcessor that has not been constructed yet.
NotConstructed ==
    /\ phase = "new"
    /\ source_data = <<>>
    /\ mode = "manifest"
    /\ work = <<>>
    /\ stats = EmptyStats
    /\ pc = <<>>
    /\ calls = <<>>
    /\ ids = <<>>
    /\ prev_ids = <<>>
    /\ cache_at_start = {}
    /\ sem = 0
    /\ batch_size = 0
    /\ max_workers = 0
    /\ offset = -1
    /\ cur = 0
    /\ runs = 0

Init ==
    /\ config \in [dir : BOOLEAN, files : SUBSET ConfigFiles]
    /\ (~config.dir => config.files = {})
    /\ pdf_dir \in SUBSET FileIds
    /\ NotConstructed
    /\ es = {}
    /\ arg = NoCall
    /\ ret = NotCalled

Construct ==
    /\ phase = "new"
    /\ phase' = IF ConfigLoads(config) THEN "constructed" ELSE "init_failed"
    /\ stats' = EmptyStats
    /\ UNCHANGED <<arg, ret, es, config, pdf_dir, source_data, mode, work, pc, calls, ids,
                   prev_ids, cache_at_start, sem, batch_size, max_workers,
                   offset, cur, runs>>

\* setup(): create the index, then _load_source_data (an absent or unreadable
\* manifest leaves source_data empty).
LoadSourceData(manifests) ==
    /\ phase = "constructed"
    /\ \E m \in manifests : source_data' = m
    /\ phase' = "idle"
    /\ UNCHANGED <<arg, ret, es, config, pdf_dir, mode, work, stats, pc, calls, ids, prev_ids,
                   cache_at_start, sem, batch_size, max_workers, offset, cur, runs>>

Setup == LoadSourceData(Manifests)

SetupRerun == LoadSourceData(ManifestsUpTo(RerunItems))

\* ------------------------------------------------------------ BatchStats updates
\* Variant: the record is dropped without being counted.
CountMissing_forgotten(s) == s

\* self.stats['skipped'] += 1 without an errors_detail entry (missing fields).
CountMissing(s) == [s EXCEPT !.skipped = @ + 1]

\* Variant: the counter is written from a value read before any other item
\* was counted, so that an update made in between is lost.
CountSkipped_stale(s, entry) ==
    [s EXCEPT !.skipped = 1, !.errors_detail = Append(@, entry)]

CountSkipped(s, entry) ==
    [s EXCEPT !.skipped = @ + 1, !.errors_detail = Append(@, entry)]

CountError(s, entry) ==
    [s EXCEPT !.errors = @ + 1, !.errors_detail = Append(@, entry)]

\* Variant: a failed download is counted as skipped.
CountDownloadFailure_asSkipped(s, entry) == CountSkipped(s, entry)

CountDownloadFailure(s, entry) == CountError(s, entry)

\* Variant: an invalid PDF is counted as an error.
CountInvalid_asError(s, entry) == CountError(s, entry)

CountInvalid(s, entry) == CountSkipped(s, entry)

\* Variant: a submission that returned is not counted.
CountProcessed_lost(s) == s

CountProcessed(s) == [s EXCEPT !.processed = @ + 1]

\* ------------------------------------------------------------ run start
FreshItems(n) ==
    /\ pc' = [i \in 1..n |-> "Pending"]
    /\ calls' = [i \in 1..n |-> <<>>]
    /\ prev_ids' = ids
    /\ ids' = [i \in 1..n |-> NoId]
    /\ cache_at_start' = pdf_dir
    /\ cur' = 0
    /\ offset' = -1

\* process_local_pdfs up to its batch loop: glob the directory, return at once
\* (without print_stats) when it holds no PDF, else fix total_files.
LocalBegin(bs) ==
    /\ batch_size' = bs
    /\ mode' = "local"
    /\ runs' = runs + 1
    /\ IF pdf_dir = {}
         THEN /\ phase' = "returned_no_summary"
              /\ work' = <<>>
              /\ stats' = stats
              /\ FreshItems(0)
         ELSE /\ phase' = "running"
              /\ work' = Listing(pdf_dir)
              /\ stats' = [stats EXCEPT !.total_files = Cardinality(pdf_dir)]
              /\ FreshItems(Cardinality(pdf_dir))
    /\ UNCHANGED <<arg, ret, es, config, pdf_dir, source_data, sem, max_workers>>

\* Variant: one permit too many.
Semaphore_offByOne(value) == value + 1

\* asyncio.Semaphore(max_workers): the initial value of the counter.
Semaphore(value) == value

\* run_processing up to its batch loop.
RunBegin(bs, mw) ==
    IF source_data = <<>>
      THEN LocalBegin(bs)
      ELSE /\ batch_size' = bs
           /\ max_workers' = mw
           /\ sem' = Semaphore(mw)
           /\ mode' = "manifest"
           /\ runs' = runs + 1
           /\ phase' = "running"
           /\ work' = [i \in 1..Len(source_data) |-> i]
           /\ stats' = [stats EXCEPT !.total_files = Len(source_data)]
           /\ FreshItems(Len(source_data))
           /\ UNCHANGED <<arg, ret, es, config, pdf_dir, source_data>>

\* First run on the instance, as main() starts it.
run_processing ==
    /\ phase = "idle"
    /\ \E bs \in 1..MaxBatch, mw \in 0..MaxWorkers : RunBegin(bs, mw)

process_local_pdfs ==
    /\ phase = "idle"
    /\ \E bs \in 1..MaxBatch : LocalBegin(bs)

\* The entry points called with their default arguments.
run_processing_default ==
    /\ phase = "idle"
    /\ RunBegin(DefaultBatchSize, DefaultMaxWorkers)

process_local_pdfs_default ==
    /\ phase = "idle"
    /\ LocalBegin(DefaultBatchSize)

\* The same entry point called again on the same instance with the same
\* arguments, after a run that ended with its summary.
run_again ==
    /\ phase = "done"
    /\ runs < MaxRuns
    /\ IF mode = "manifest"
         THEN RunBegin(batch_size, max_workers)
         ELSE LocalBegin(batch_size)

\* ------------------------------------------------------------ batch loop
BatchOf(i) == (i - 1) \div batch_size

CurrentBatch == IF offset < 0 THEN {}
                ELSE { i \in Items : offset + 1 <= i /\ i <= offset + batch_size }

\* Variant: the tasks of a batch are created but not awaited.
BatchDrained_notAwaited == TRUE

\* "for f in as_completed(tasks): await f" has returned every task's result
\* (local mode: the inner for loop has called process_single_pdf_file on each).
BatchDrained == \A i \in CurrentBatch : pc[i] \in Terminal

NextOffset == IF offset < 0 THEN 0 ELSE offset + batch_size

NextBatch ==
    /\ phase = "running"
    /\ cur = 0
    /\ BatchDrained
    /\ NextOffset < NItems
    /\ offset' = NextOffset
    /\ pc' = IF mode = "manifest"
               THEN [i \in Items |->
                       IF NextOffset + 1 <= i /\ i <= NextOffset + batch_size
                         THEN "Scheduled" ELSE pc[i]]
               ELSE pc
    /\ UNCHANGED <<arg, ret, es, config, pdf_dir, phase, source_data, mode, work, stats, calls,
                   ids, prev_ids, cache_at_start, sem, batch_size, max_workers,
                   cur, runs>>

\* "await f" re-raises an exception that escaped a task: run_processing ends
\* there, no later batch is created and print_stats is not reached.
Abort ==
    /\ phase = "running"
    /\ cur = 0
    /\ \A i \in CurrentBatch : pc[i] \in Ended
    /\ \E i \in CurrentBatch : pc[i] = "Raised"
    /\ phase' = "aborted"
    /\ UNCHANGED <<arg, ret, es, config, pdf_dir, source_data, mode, work, stats, pc, calls,
                   ids, prev_ids, cache_at_start, sem, batch_size, max_workers,
                   offset, cur, runs>>

\* The loop is over: end_time is set and print_stats emits the summary.
Finish ==
    /\ phase = "running"
    /\ cur = 0
    /\ BatchDrained
    /\ NextOffset >= NItems
    /\ phase' = "done"
    /\ UNCHANGED <<arg, ret, es, config, pdf_dir, source_data, mode, work, stats, pc, calls,
                   ids, prev_ids, cache_at_start, sem, batch_size, max_workers,
                   offset, cur, runs>>

\* ------------------------------------------------------------ ElasticsearchManager
\* A document is a dict: a function from the keys it holds to their values.
\* Values are strings; None is the value of a key that is present and null.
\* The nested key metadata['processed_at'] is written "metadata.processed_at".
None == "None"

RequiredFields == {"titulo", "autor", "descricao", "capitania", "tipo", "ano"}

DefaultOf(field) == IF field = "ano" THEN "0" ELSE ""

\* The strings s with len(s) == 4 and s.isdigit() among the values of "data".
FourDigitYears == {"1532"}

\* _prepare_document: processed_at is added when the key is missing, a required
\* field that is missing or None gets its default, a "data" that is a bare
\* four-digit year becomes an ISO date; every other key is copied.
_prepare_document(document) ==
    [f \in DOMAIN document \cup RequiredFields \cup {"metadata.processed_at"} |->
        CASE f = "metadata.processed_at" ->
                 IF f \in DOMAIN document THEN document[f] ELSE "utcnow"
          [] f \in RequiredFields ->
                 IF f \in DOMAIN document /\ document[f] # None
                   THEN document[f] ELSE DefaultOf(f)
          [] f = "data" ->
                 IF document[f] \in FourDigitYears
                   THEN document[f] \o "-01-01" ELSE document[f]
          [] OTHER -> document[f]]

\* A doc_id that "not doc_id" takes as missing: None or the empty string.
NoDocId == <<>>

\* _generate_document_id: the file name stem and the first 8 hex digits of the
\* md5 of str(document); it is a function of the document, and distinct
\* documents are taken to hash differently.
_generate_document_id(document) == <<"generated", document>>

\* Variant: the id passed by the caller is ignored.
DocumentId_alwaysGenerated(document, doc_id) == _generate_document_id(document)

\* "if not doc_id: doc_id = self._generate_document_id(document)"
DocumentId(document, doc_id) ==
    IF doc_id = NoDocId THEN _generate_document_id(document) ELSE doc_id

\* The Elasticsearch client: index() creates the document or replaces the one
\* held under the id; get() and delete() raise NotFoundError on an id that
\* holds nothing.
EsHas(index, id) == \E h \in index : h.id = id

EsSource(index, id) == (CHOOSE h \in index : h.id = id).source

EsIndex(index, id, body) ==
    { h \in index : h.id # id } \cup { [id |-> id, source |-> body] }

EsDelete(index, id) == { h \in index : h.id # id }

\* The index after index_document(document, doc_id) returned.
Indexed(index, document, doc_id) ==
    EsIndex(index, DocumentId(document, doc_id), _prepare_document(document))

\* The replies of the client to one request: it answers, or the request
\* fails (connection, timeout, rejected request).
Replies == {"ok", "transport_error"}

Returned(value) == [called |-> TRUE, raised |-> FALSE, value |-> value]

Raised(error) == [called |-> TRUE, raised |-> TRUE, value |-> error]

\* index_document returns response['_id'] and re-raises every exception.
index_document_result(document, doc_id, reply) ==
    IF reply = "ok" THEN Returned(DocumentId(document, doc_id))
    ELSE Raised("Exception")

\* get_by_id returns the _source, None on NotFoundError, and re-raises every
\* other exception.
get_by_id_result(index, doc_id, reply) ==
    CASE reply # "ok" -> Raised("Exception")
      [] EsHas(index, doc_id) -> Returned(EsSource(index, doc_id))
      [] OTHER -> Returned(None)

\* delete_document returns True after the delete, False on NotFoundError and
\* on every other exception.
delete_document_result(index, doc_id, reply) ==
    Returned(reply = "ok" /\ EsHas(index, doc_id))

\* ------------------------------------------------------------ values
\* A Python float that the code computes from integers by +, *, / and min is
\* kept as the exact fraction <<numerator, denominator>> in lowest terms,
\* denominator > 0.
Frac(n, d) ==
    LET RECURSIVE gcd(_, _)
        gcd(a, b) == IF b = 0 THEN a ELSE gcd(b, a % b)
    IN <<n \div gcd(n, d), d \div gcd(n, d)>>

FracAdd(a, b) ==
    LET g == Frac(a[2], b[2])
    IN Frac(a[1] * g[2] + b[1] * g[1], a[2] * g[2])

FracLess(a, b) ==
    LET g == Frac(a[2], b[2])
    IN a[1] * g[2] < b[1] * g[1]

\* Variant: the score is returned as computed.
CapAtOne_missing(x) == x

\* min(x, 1.0)
CapAtOne(x) == IF FracLess(Frac(1, 1), x) THEN Frac(1, 1) ELSE x

\* A Python str on which the code searches or splits is the sequence of its
\* characters; "key in text" is Contains(text, key).
Contains(text, key) ==
    \E k \in 0..(Len(text) - Len(key)) :
        \A j \in 1..Len(key) : text[k + j] = key[j]

\* The elements of seq at the positions that pass the test, in order.
Keep(seq, Test(_)) ==
    LET idx == SelectSeq([k \in 1..Len(seq) |-> k], Test)
    IN [j \in 1..Len(idx) |-> seq[idx[j]]]

\* list.sort(key=...), a stable sort: Less(a, b) when a's key is smaller.
SortedBy(seq, Less(_, _)) ==
    LET sorted[n \in 0..Len(seq)] ==
            IF n = 0 THEN <<>>
            ELSE SelectSeq(sorted[n - 1], LAMBDA y : ~Less(seq[n], y))
                 \o <<seq[n]>>
                 \o SelectSeq(sorted[n - 1], LAMBDA y : Less(seq[n], y))
    IN sorted[Len(seq)]

\* dict.get(key, default)
Get(d, key, default) == IF key \in DOMAIN d THEN d[key] ELSE default

\* "a or b" on values that are strings or None.
Or(a, b) == IF a \in {None, ""} THEN b ELSE a

\* ------------------------------------------------------------ per-item steps
Call(i, op, res) == [calls EXCEPT ![i] = Append(@, [op |-> op, res |-> res])]

\* Leaving "async with semaphore" (normally or by an exception) releases it.
Released == IF mode = "manifest" THEN sem + 1 ELSE sem

\* The event loop picks a scheduled task; "async with semaphore" is entered at
\* once when the semaphore is free.
TaskStart(i) ==
    /\ phase = "running" /\ mode = "manifest" /\ cur = 0
    /\ pc[i] \in {"Scheduled", "Waiting"}
    /\ sem > 0
    /\ sem' = sem - 1
    /\ pc' = [pc EXCEPT ![i] = "Admitted"]
    /\ cur' = i
    /\ UNCHANGED <<arg, ret, es, config, pdf_dir, phase, source_data, mode, work, stats, calls,
                   ids, prev_ids, cache_at_start, batch_size, max_workers,
                   offset, runs>>

\* The semaphore is exhausted: acquire() suspends the task until a release.
TaskBlock(i) ==
    /\ phase = "running" /\ mode = "manifest" /\ cur = 0
    /\ pc[i] = "Scheduled"
    /\ sem = 0
    /\ pc' = [pc EXCEPT ![i] = "Waiting"]
    /\ UNCHANGED <<arg, ret, es, config, pdf_dir, phase, source_data, mode, work, stats, calls,
                   ids, prev_ids, cache_at_start, sem, batch_size, max_workers,
                   offset, cur, runs>>

\* process_local_pdfs calls process_single_pdf_file on the files of the batch
\* one after another, in list order; the file is already local.
LocalPick(i) ==
    /\ phase = "running" /\ mode = "local" /\ cur = 0
    /\ i \in CurrentBatch
    /\ pc[i] = "Pending"
    /\ \A j \in CurrentBatch : j < i => pc[j] \in Terminal
    /\ pc' = [pc EXCEPT ![i] = "Acquired"]
    /\ cur' = i
    /\ UNCHANGED <<arg, ret, es, config, pdf_dir, phase, source_data, mode, work, stats, calls,
                   ids, prev_ids, cache_at_start, sem, batch_size, max_workers,
                   offset, runs>>

\* What lines 265-278 of process_with_semaphore do with a record:
\* item.get('_id', {}).get('$oid') raises when _id is not a dict; a falsy
\* pdf_links or source_id is skipped; pdf_url.split raises on a non-string.
ItemCheck(item) ==
    IF item.oid = "notdict" THEN "raise"
    ELSE IF item.pdf_links = "missing" \/ item.oid = "missing" THEN "skip"
    ELSE IF item.pdf_links = "list" THEN "raise"
    ELSE "resolved"

CheckItem(i) ==
    /\ phase = "running" /\ cur = i /\ pc[i] = "Admitted"
    /\ LET r == ItemCheck(source_data[i]) IN
         /\ pc' = [pc EXCEPT ![i] = CASE r = "raise" -> "Raised"
                                      [] r = "skip" -> "Skipped"
                                      [] OTHER -> "Resolved"]
         /\ stats' = IF r = "skip" THEN CountMissing(stats) ELSE stats
         /\ sem' = IF r = "resolved" THEN sem ELSE Released
         /\ cur' = IF r = "resolved" THEN i ELSE 0
         /\ calls' = Call(i, "check", r)
    /\ UNCHANGED <<arg, ret, es, config, pdf_dir, phase, source_data, mode, work, ids, prev_ids,
                   cache_at_start, batch_size, max_workers, offset, runs>>

\* Variant: the existence check is missing, every run downloads.
CacheHit_ignored(f, dir) == FALSE

\* destination_path.exists(): the sole existence check of the cache.
CacheHit(f, dir) == f \in dir

\* _download_pdf and the branch of process_with_semaphore on its result.
\* A request that fails before the file is opened ("http_error") leaves no
\* file; one that fails while the chunks are written ("partial") leaves one.
DownloadPdf(i) ==
    /\ phase = "running" /\ cur = i /\ pc[i] = "Resolved"
    /\ \/ /\ CacheHit(work[i], pdf_dir)
          /\ calls' = Call(i, "download", "cached")
          /\ pc' = [pc EXCEPT ![i] = "Acquired"]
          /\ UNCHANGED <<pdf_dir, stats, sem, cur>>
       \/ /\ ~CacheHit(work[i], pdf_dir)
          /\ calls' = Call(i, "fetch", "saved")
          /\ pdf_dir' = pdf_dir \cup {work[i]}
          /\ pc' = [pc EXCEPT ![i] = "Acquired"]
          /\ UNCHANGED <<stats, sem, cur>>
       \/ /\ ~CacheHit(work[i], pdf_dir)
          /\ \E how \in {"http_error", "partial"} :
               /\ calls' = Call(i, "fetch", how)
               /\ pdf_dir' = IF how = "partial" THEN pdf_dir \cup {work[i]}
                             ELSE pdf_dir
          /\ stats' = CountDownloadFailure(stats, <<i, "download_failed">>)
          /\ pc' = [pc EXCEPT ![i] = "Failed"]
          /\ sem' = Released
          /\ cur' = 0
    /\ UNCHANGED <<arg, ret, es, config, phase, source_data, mode, work, ids, prev_ids,
                   cache_at_start, batch_size, max_workers, offset, runs>>

\* validate_pdf and the early return on False.
ValidatePdf(i) ==
    /\ phase = "running" /\ cur = i /\ pc[i] = "Acquired"
    /\ \E valid \in BOOLEAN :
         /\ calls' = Call(i, "validate_pdf", valid)
         /\ IF valid
              THEN /\ pc' = [pc EXCEPT ![i] = "Validated"]
                   /\ UNCHANGED <<stats, sem, cur>>
              ELSE /\ pc' = [pc EXCEPT ![i] = "Skipped"]
                   /\ stats' = CountInvalid(stats, <<i, "invalid_pdf">>)
                   /\ sem' = Released
                   /\ cur' = 0
    /\ UNCHANGED <<arg, ret, es, config, pdf_dir, phase, source_data, mode, work, ids, prev_ids,
                   cache_at_start, batch_size, max_workers, offset, runs>>

\* extract_text raises ValueError when the normalized text is shorter than
\* MinMeaningfulText; the caller's "except Exception" counts it as an error.
\* A returned text shorter than MinTextLen is skipped.
ExtractOutcome(len) ==
    IF len < MinMeaningfulText THEN "raise"
    ELSE IF len < MinTextLen THEN "short"
    ELSE "text"

ExtractText(i) ==
    /\ phase = "running" /\ cur = i /\ pc[i] = "Validated"
    /\ \E len \in TextLens :
         LET r == ExtractOutcome(len) IN
         /\ calls' = Call(i, "extract_text", r)
         /\ pc' = [pc EXCEPT ![i] = CASE r = "raise" -> "Failed"
                                      [] r = "short" -> "Skipped"
                                      [] OTHER -> "TextExtracted"]
         /\ stats' = CASE r = "raise" -> CountError(stats, <<i, "exception">>)
                       [] r = "short" -> CountSkipped(stats, <<i, "short_text">>)
                       [] OTHER -> stats
         /\ sem' = IF r = "text" THEN sem ELSE Released
         /\ cur' = IF r = "text" THEN i ELSE 0
    /\ UNCHANGED <<arg, ret, es, config, pdf_dir, phase, source_data, mode, work, ids, prev_ids,
                   cache_at_start, batch_size, max_workers, offset, runs>>

\* data_extractor.extract_all(text)
ExtractAll(i) ==
    /\ phase = "running" /\ cur = i /\ pc[i] = "TextExtracted"
    /\ calls' = Call(i, "extract_all", "entities")
    /\ pc' = [pc EXCEPT ![i] = "EntitiesExtracted"]
    /\ UNCHANGED <<arg, ret, es, config, pdf_dir, phase, source_data, mode, work, stats, ids,
                   prev_ids, cache_at_start, sem, batch_size, max_workers,
                   offset, cur, runs>>

\* The id the document is submitted under: the record's $oid in manifest mode
\* (the file name when the record has none), the file name in local mode.
DocId(i) ==
    IF mode = "manifest" /\ source_data[i].oid = "oid"
      THEN <<"oid", i>>
      ELSE <<"file", work[i]>>

\* The document assembled for item i, by the one field that tells the
\* documents of a run apart.  es_manager.index_document(document, doc_id)
\* stores it and returns, or raises into the caller's "except Exception".
Document(i) == [nome_arquivo |-> ToString(work[i])]

IndexDocument(i) ==
    /\ phase = "running" /\ cur = i /\ pc[i] = "EntitiesExtracted"
    /\ \E stored \in BOOLEAN :
         /\ calls' = Call(i, "index_document", stored)
         /\ IF stored
              THEN /\ pc' = [pc EXCEPT ![i] = "Submitted"]
                   /\ ids' = [ids EXCEPT ![i] = DocId(i)]
                   /\ es' = Indexed(es, Document(i), DocId(i))
                   /\ stats' = CountProcessed(stats)
              ELSE /\ pc' = [pc EXCEPT ![i] = "Failed"]
                   /\ ids' = ids
                   /\ es' = es
                   /\ stats' = CountError(stats, <<i, "exception">>)
    /\ sem' = Released
    /\ cur' = 0
    /\ UNCHANGED <<arg, ret, config, pdf_dir, phase, source_data, mode, work,
                   prev_ids, cache_at_start, batch_size, max_workers, offset,
                   runs>>

\* ------------------------------------------------------------ document assembly
\* pdf_filename.replace('.pdf', '') on the name of a file of pdf_dir.
Stems == {"carta"}

PdfNames == { stem \o ".pdf" : stem \in Stems }

Stem(pdf_filename) == CHOOSE stem \in Stems : stem \o ".pdf" = pdf_filename

\* The title and author fields of the document _process_single_pdf builds
\* from the manifest record and the PDF metadata.
ManifestDocument(source_item, metadata, pdf_filename) ==
    [nome_arquivo |-> pdf_filename,
     titulo |-> Get(source_item, "titulo", Get(metadata, "title", "N/A")),
     autor |-> Get(source_item, "autor", Get(metadata, "author", "N/A"))]

\* The same fields of the document process_single_pdf_file builds.
LocalDocument(metadata, pdf_filename) ==
    [nome_arquivo |-> pdf_filename,
     titulo |-> Or(Get(metadata, "title", "N/A"), Stem(pdf_filename)),
     autor |-> Or(Get(metadata, "author", "N/A"), "Desconhecido")]

\* Manifest records: "titulo" and "autor" each absent, null, empty or given.
SourceItems ==
    UNION { [keys -> {None, "", "Carta de doacao"}] :
              keys \in SUBSET {"titulo", "autor"} }

\* get_metadata: title and author are '' unless the PDF carries a non-empty one.
Metadatas == [title : {"", "Relatorio"}, author : {"", "Fulano"}]

AssembleArgs ==
    [fn : {"_process_single_pdf"}, source_item : SourceItems,
     metadata : Metadatas, pdf_filename : PdfNames]

AssembleLocalArgs ==
    [fn : {"process_single_pdf_file"}, metadata : Metadatas,
     pdf_filename : PdfNames]

\* ------------------------------------------------------------ PDFProcessor
\* A path as validate_pdf finds it: whether a file is there, whether stat()
\* and open() succeed, its size, whether PdfReader can read its structure and
\* how many pages it then has.  An empty file has no structure to read.
PdfFiles ==
    { f \in [exists : BOOLEAN, access : {"ok", "denied"},
             size : {0, 1, max_file_size, max_file_size + 1},
             structure : {"ok", "corrupt"}, pages : 0..MaxPages] :
        /\ ~f.exists => (f.access = "ok" /\ f.size = 0)
        /\ f.size = 0 => f.structure = "corrupt"
        /\ f.structure = "corrupt" => f.pages = 0 }

\* Variant: a file of exactly the maximum size is rejected.
TooLarge_inclusive(file_size) == file_size >= max_file_size

TooLarge(file_size) == file_size > max_file_size

\* validate_pdf: each test returns False; an exception of stat() or open() is
\* caught by the outer handler, one of PdfReader by the inner one.
validate_pdf(f) ==
    IF ~f.exists THEN FALSE
    ELSE IF f.access = "denied" THEN FALSE
    ELSE IF TooLarge(f.size) THEN FALSE
    ELSE IF f.size = 0 THEN FALSE
    ELSE IF f.structure = "corrupt" THEN FALSE
    ELSE IF f.pages = 0 THEN FALSE
    ELSE TRUE

\* Characters with ord(char) < 32 other than "\n" and "\t": carriage return,
\* form feed and a control character that is not white space ("^A").
ControlChars == {"\r", "\f", "^A"}

\* What str.strip() and str.split() take as white space.
Whitespace == {" ", "\t", "\n", "\r", "\f"}

RemoveControl(text) == SelectSeq(text, LAMBDA c : c \notin ControlChars)

\* text.replace('\r\n', '\n').replace('\r', '\n')
NormalizeBreaks(text) ==
    LET InCrLf(k) == text[k] = "\r" /\ k < Len(text) /\ text[k + 1] = "\n"
        kept == Keep(text, LAMBDA k : ~InCrLf(k))
    IN [k \in 1..Len(kept) |-> IF kept[k] = "\r" THEN "\n" ELSE kept[k]]

\* text.split('\n'): the lines of the text, at least one.
RECURSIVE SplitLines(_)
SplitLines(text) ==
    IF \A k \in 1..Len(text) : text[k] # "\n" THEN <<text>>
    ELSE LET k == CHOOSE i \in 1..Len(text) :
                      /\ text[i] = "\n"
                      /\ \A j \in 1..(i - 1) : text[j] # "\n"
         IN <<SubSeq(text, 1, k - 1)>>
                \o SplitLines(SubSeq(text, k + 1, Len(text)))

\* '\n'.join(lines)
RECURSIVE JoinLines(_)
JoinLines(lines) ==
    IF lines = <<>> THEN <<>>
    ELSE IF Len(lines) = 1 THEN lines[1]
    ELSE lines[1] \o <<"\n">> \o JoinLines(Tail(lines))

\* str.strip()
Strip(s) ==
    LET keep == { k \in 1..Len(s) : s[k] \notin Whitespace }
    IN IF keep = {} THEN <<>>
       ELSE SubSeq(s, CHOOSE a \in keep : \A k \in keep : a <= k,
                      CHOOSE b \in keep : \A k \in keep : k <= b)

\* The loop over the lines: each line is stripped; a line that is then empty
\* is kept while the run of empty lines is at most MaxEmptyLines long.
RECURSIVE KeepLines(_, _)
KeepLines(lines, empty_line_count) ==
    IF lines = <<>> THEN <<>>
    ELSE LET line == Strip(Head(lines)) IN
         IF line # <<>> THEN <<line>> \o KeepLines(Tail(lines), 0)
         ELSE IF empty_line_count + 1 <= MaxEmptyLines
                THEN <<line>> \o KeepLines(Tail(lines), empty_line_count + 1)
         ELSE KeepLines(Tail(lines), empty_line_count + 1)

\* ' '.join(line.split()): runs of white space become one space, none is left
\* at either end.
CollapseSpaces(line) ==
    LET s == Strip(line)
        kept == Keep(s, LAMBDA k : s[k] \notin Whitespace
                                      \/ s[k + 1] \notin Whitespace)
    IN [k \in 1..Len(kept) |-> IF kept[k] \in Whitespace THEN " " ELSE kept[k]]

\* _clean_text, in the order of its statements: control characters are removed
\* first, line breaks are rewritten after that.
_clean_text(text) ==
    IF text = <<>> THEN <<>>
    ELSE LET stripped == NormalizeBreaks(RemoveControl(text))
             cleaned_lines == KeepLines(SplitLines(stripped), 0)
             lines == SplitLines(JoinLines(cleaned_lines))
         IN JoinLines([k \in 1..Len(lines) |-> CollapseSpaces(lines[k])])

\* Variant: the fallback is decided on the untrimmed length.
NeedsFallback_untrimmed(text) == Len(text) < MinPrimaryText

\* "not text or len(text.strip()) < 100"
NeedsFallback(text) == text = <<>> \/ Len(Strip(text)) < MinPrimaryText

\* extract_text on what the two strategies yield for the file (each yields ""
\* when it fails): tried lists the strategies that were run.
extract_text(f, primary, secondary) ==
    IF ~validate_pdf(f)
      THEN [called |-> TRUE, raised |-> TRUE, value |-> "ValueError",
            tried |-> <<>>]
      ELSE LET fallback == NeedsFallback(primary)
               text == _clean_text(IF fallback THEN secondary ELSE primary)
               tried == IF fallback THEN <<"pdfplumber", "PyPDF2">>
                        ELSE <<"pdfplumber">>
           IN IF text = <<>> \/ Len(Strip(text)) < MinMeaningfulText
                THEN [called |-> TRUE, raised |-> TRUE, value |-> "ValueError",
                      tried |-> tried]
                ELSE [called |-> TRUE, raised |-> FALSE, value |-> text,
                      tried |-> tried]

Repeat(c, n) == [k \in 1..n |-> c]

\* What a strategy yields: nothing, or a text around the two thresholds, with
\* and without blank lines before it and white space after it.
PageTexts ==
    { lead \o Repeat("a", n) \o trail :
        lead \in {<<>>, <<"\n", "\n">>},
        n \in {0, MinMeaningfulText - 1, MinMeaningfulText,
               MinPrimaryText - 1, MinPrimaryText},
        trail \in {<<>>, <<" ">>} }

ValidatePdfArgs == [fn : {"validate_pdf"}, file : PdfFiles]

\* extract_text is called on a readable one-page PDF and on one that
\* validate_pdf rejects.
ExtractTextArgs ==
    [fn : {"extract_text"},
     file : { f \in PdfFiles : /\ f.exists /\ f.access = "ok" /\ f.size = 1
                               /\ f.structure = "ok" /\ f.pages <= 1 },
     primary : PageTexts, secondary : PageTexts]

\* _clean_text is called on the texts of up to MaxTextLen characters.
CleanTextArgs ==
    [fn : {"_clean_text"},
     text : UNION { [1..n -> {"a", " ", "\t", "\n", "\r", "^A"}] :
                      n \in 0..MaxTextLen }]

\* ------------------------------------------------------------ DataExtractor: duplicates
\* The loop of the three _deduplicate_* methods: an element is kept when no
\* earlier element of the list has its key.
FirstOfEachKey(seq, Key(_)) ==
    Keep(seq, LAMBDA k : \A j \in 1..(k - 1) : Key(seq[j]) # Key(seq[k]))

\* Variant: the key holds the position itself.
DateKey_exactPosition(date) == <<date.year, date.position>>

DateKey(date) == <<date.year, date.position \div DedupBucket>>

\* unidecode(full_name.lower()) on the names used below.
NameKey(name) ==
    CASE name.full_name \in {"Ana Costa", "ANA COSTA", "ana costa"}
           -> "ana costa"
      [] name.full_name \in {"Rui Costa"} -> "rui costa"
      [] OTHER -> name.full_name

PlaceKey(place) == <<place.location, place.capitania>>

_deduplicate_dates(dates) == FirstOfEachKey(dates, DateKey)

_deduplicate_names(names) == FirstOfEachKey(names, NameKey)

_deduplicate_places(places) == FirstOfEachKey(places, PlaceKey)

\* The lists of at most n elements of S.
RECURSIVE ListsUpTo(_, _)
ListsUpTo(S, n) ==
    IF n = 0 THEN {<<>>}
    ELSE LET shorter == ListsUpTo(S, n - 1)
         IN shorter \cup
            { Append(t, x) : t \in { u \in shorter : Len(u) = n - 1 }, x \in S }

DeduplicateArgs ==
    [fn : {"_deduplicate_dates"},
     list : ListsUpTo([year : {1532, 1600}, position : {0, 49, 50}],
                      MaxEntities)]
    \cup [fn : {"_deduplicate_names"},
          list : ListsUpTo([full_name : {"Ana Costa", "ANA COSTA", "Rui Costa"},
                            position : {0, 60}], MaxEntities)]
    \cup [fn : {"_deduplicate_places"},
          list : ListsUpTo([location : {"Olinda", "Recife"},
                            capitania : {"Pernambuco", "Itamaraca"},
                            match_type : {"exact", "fuzzy"}], MaxEntities)]

\* ------------------------------------------------------------ DataExtractor: dates
\* str.lower() on the characters and words the texts below are made of.
Lower(text) ==
    [k \in 1..Len(text) |->
        CASE text[k] = "X" -> "x"
          [] text[k] = "V" -> "v"
          [] text[k] = "I" -> "i"
          [] text[k] = "Primeira" -> "primeira"
          [] OTHER -> text[k]]

\* Variant: the first year of a century belongs to the century before.
_get_century_from_year_late(year) ==
    IF 1500 < year /\ year <= 1599 THEN "XVI"
    ELSE IF 1600 < year /\ year <= 1699 THEN "XVII"
    ELSE IF 1700 < year /\ year <= 1799 THEN "XVIII"
    ELSE IF 1800 < year /\ year <= 1899 THEN "XIX"
    ELSE ToString((year \div 100) + 1)

_get_century_from_year(year) ==
    IF 1500 <= year /\ year <= 1599 THEN "XVI"
    ELSE IF 1600 <= year /\ year <= 1699 THEN "XVII"
    ELSE IF 1700 <= year /\ year <= 1799 THEN "XVIII"
    ELSE IF 1800 <= year /\ year <= 1899 THEN "XIX"
    ELSE ToString((year \div 100) + 1)

\* The first entry of an ordered table (a dict read from JSON, in file order)
\* whose key occurs in the text; 0 when none does.
FirstKeyIn(table, text) ==
    LET hits == { k \in 1..Len(table) : Contains(text, table[k].key) }
    IN IF hits = {} THEN 0 ELSE CHOOSE k \in hits : \A j \in hits : k <= j

\* _map_century_to_year; None is written 0, which the caller's
\* "if century_year:" treats alike.
_map_century_to_year(century_text, century_map) ==
    LET k == FirstKeyIn(century_map, Lower(century_text))
    IN IF k = 0 THEN 0 ELSE century_map[k].year

\* Variant: the percentage is taken of 100 years.
PercentOfCentury_hundred(pct) == (pct * 100) \div 100

\* start_pct * 99 // 100
PercentOfCentury(pct) == (pct * 99) \div 100

\* _apply_period_modifier; a period_text that is None or "" is written <<>>.
_apply_period_modifier(base_year, period_text, part_map) ==
    LET k == FirstKeyIn(part_map, Lower(period_text))
    IN IF period_text = <<>> \/ k = 0 THEN <<base_year, base_year + 99>>
       ELSE <<base_year + PercentOfCentury(part_map[k].span[1]),
              base_year + PercentOfCentury(part_map[k].span[2])>>

\* extract_dates on a text in which year_pattern and textual_phrase_pattern
\* have the given matches.
extract_dates(year_matches, textual_matches, date_config) ==
    LET mapped == SelectSeq(textual_matches, LAMBDA m :
                      _map_century_to_year(m.century,
                                           date_config.century_map) # 0)
        year_range(m) ==
            _apply_period_modifier(
                _map_century_to_year(m.century, date_config.century_map),
                m.part, date_config.part_map)
        years == [k \in 1..Len(year_matches) |->
                    [type |-> "year", year |-> year_matches[k].year,
                     century |-> _get_century_from_year(year_matches[k].year),
                     position |-> year_matches[k].position,
                     confidence |-> Frac(9, 10)]]
        textual == [k \in 1..Len(mapped) |->
                      [type |-> "textual", year |-> year_range(mapped[k])[1],
                       year_end |-> year_range(mapped[k])[2],
                       century |-> _get_century_from_year(
                                       year_range(mapped[k])[1]),
                       period |-> mapped[k].part,
                       position |-> mapped[k].position,
                       confidence |-> Frac(7, 10)]]
    IN SortedBy(_deduplicate_dates(years \o textual),
                LAMBDA a, b : a.position < b.position)

\* The ordered tables of at most n entries with distinct keys: a JSON object
\* of the configuration, read in file order.
RECURSIVE Tables(_, _)
Tables(entries, n) ==
    IF n = 0 THEN {<<>>}
    ELSE LET shorter == Tables(entries, n - 1)
             longer == { Append(t, x) :
                           t \in { u \in shorter : Len(u) = n - 1 },
                           x \in entries }
         IN shorter \cup
            { t \in longer : \A k \in 1..(n - 1) : t[k].key # t[n].key }

\* Calls of _apply_period_modifier: the "part" group of a match is absent or
\* a period fragment as written in the text; date_config['part_map'] maps
\* period fragments to (start_pct, end_pct), 0 <= start_pct <= end_pct <= 100.
PeriodModifierArgs ==
    LET keys == { <<"primeira", " ", "metade">>, <<"segunda", " ", "metade">>,
                  <<"metade">> }
        spans == { sp \in {0, 50, 100} \X {0, 50, 100} : sp[1] <= sp[2] }
    IN [fn : {"_apply_period_modifier"}, base_year : {1500, 1800},
        period_text : { <<>>, <<"Primeira", " ", "metade">>,
                        <<"segunda", " ", "metade">>, <<"final">> },
        part_map : Tables([key : keys, span : spans], MaxPartEntries)]

\* Calls of extract_dates on a text with at most one match of the year
\* pattern and one of the textual pattern ("century" and "part" groups as
\* written in the text); date_config['century_map'] maps century numerals to
\* base years.
ExtractDatesArgs ==
    LET year_matches ==
            [year : {1499, 1500, 1532, 1599, 1600, 1899, 1900},
             position : {0, 60}]
        textual_matches ==
            [century : { <<"X", "V", "I">>, <<"X", "V", "I", "I">>,
                         <<"x", "v", "i", "i", "i">>, <<"X", "X">> },
             part : {<<>>, <<"Primeira", " ", "metade">>},
             position : {10}]
        part_map ==
            << [key |-> <<"primeira", " ", "metade">>, span |-> <<0, 50>>],
               [key |-> <<"segunda", " ", "metade">>, span |-> <<50, 100>>] >>
        century_map ==
            { [key |-> <<"x", "v", "i">>, year |-> 1500],
              [key |-> <<"x", "v", "i", "i">>, year |-> 1600],
              [key |-> <<"x", "v", "i", "i", "i">>, year |-> 1700] }
    IN [fn : {"extract_dates"},
        year_matches : ListsUpTo(year_matches, 1),
        textual_matches : ListsUpTo(textual_matches, 1),
        date_config : [century_map : Tables(century_map, MaxCenturyKeys),
                       part_map : {part_map}]]

\* Calls of _get_century_from_year on the years around every century
\* boundary of the table, before it and after it.
CenturyFromYearArgs ==
    [fn : {"_get_century_from_year"},
     year : {0, 99, 100, 1499, 1500, 1532, 1599, 1600, 1699, 1700, 1799,
             1800, 1899, 1900, 1999, 2000, 2024}]

\* ------------------------------------------------------------ DataExtractor: names and places
\* _check_name_confidence on a name part, given what the name list holds for
\* it: the part itself (listed), or else the score of its best fuzzy match
\* (process.extractOne; 0 stands for None, the answer on an empty list).
\* Variant: a fuzzy score equal to the threshold counts as a match.
_check_name_confidence_inclusive(lookup) ==
    IF lookup.listed THEN Frac(1, 1)
    ELSE IF lookup.best >= FuzzThreshold THEN Frac(lookup.best, 100)
    ELSE Frac(0, 1)

_check_name_confidence(lookup) ==
    IF lookup.listed THEN Frac(1, 1)
    ELSE IF lookup.best > FuzzThreshold THEN Frac(lookup.best, 100)
    ELSE Frac(0, 1)

\* extract_names on a text in which name_pattern has the given matches.
extract_names(matches) ==
    LET overall(m) ==
            LET both == FracAdd(_check_name_confidence(m.first),
                                _check_name_confidence(m.last))
            IN Frac(both[1], 2 * both[2])
        kept == SelectSeq(matches,
                          LAMBDA m : FracLess(Frac(6, 10), overall(m)))
        names == [k \in 1..Len(kept) |->
                    [full_name |-> kept[k].full_name,
                     position |-> kept[k].position,
                     confidence |-> overall(kept[k])]]
    IN SortedBy(_deduplicate_names(names),
                LAMBDA a, b : FracLess(b.confidence, a.confidence))

\* extract_places on a text of two words, given for each place of the
\* gazetteer whether its name occurs in the text and, if not,
\* fuzz.ratio(name, word) for each word.
extract_places(places_normalized, findings) ==
    LET Found(k) ==
            IF findings[k].exact
              THEN << [location |-> places_normalized[k].location,
                       capitania |-> places_normalized[k].capitania,
                       position |-> findings[k].position,
                       confidence |-> Frac(1, 1), match_type |-> "exact"] >>
              ELSE LET words == Keep(findings[k].ratios, LAMBDA w :
                                   findings[k].ratios[w] > FuzzThreshold)
                   IN [j \in 1..Len(words) |->
                         [location |-> places_normalized[k].location,
                          capitania |-> places_normalized[k].capitania,
                          position |-> findings[k].position,
                          confidence |-> Frac(words[j], 100),
                          match_type |-> "fuzzy"]]
        all[k \in 0..Len(places_normalized)] ==
            IF k = 0 THEN <<>> ELSE all[k - 1] \o Found(k)
    IN SortedBy(_deduplicate_places(all[Len(places_normalized)]),
                LAMBDA a, b : FracLess(b.confidence, a.confidence))

\* Calls of extract_names on a text with one or two matches; the same written
\* name finds the same in the name lists wherever it stands.
ExtractNamesArgs ==
    LET lookups == [listed : {TRUE}, best : {100}]
                   \cup [listed : {FALSE}, best : {0, 80, 81, 100}]
        matches(position) ==
            [first : lookups, last : lookups,
             full_name : {"Ana Costa", "Rui Costa"}, position : {position}]
    IN [fn : {"extract_names"},
        matches : { <<m>> : m \in matches(0) }
                  \cup { t \in matches(0) \X matches(20) :
                            t[1].full_name = t[2].full_name
                            => /\ t[1].first = t[2].first
                               /\ t[1].last = t[2].last }]

\* Calls of extract_places with a gazetteer of two places; a ratio of 100
\* means equal strings and so an exact match.
ExtractPlacesArgs ==
    LET findings == [exact : {TRUE}, ratios : {<<0, 0>>}, position : {0}]
                    \cup [exact : {FALSE},
                          ratios : {0, 80, 81, 99} \X {0, 80, 81, 99},
                          position : {7}]
    IN [fn : {"extract_places"},
        places_normalized :
            { << [location |-> "Olinda", capitania |-> "Pernambuco"],
                 [location |-> "Recife", capitania |-> "Pernambuco"] >> },
        findings : findings \X findings]

\* ------------------------------------------------------------ DataExtractor: themes
\* A text of total_words words of word_len characters each, separated by one
\* space, in which the words at the indexes in slots are keywords of the
\* category: the character offsets that str.find() reports for them.
KeywordPositions(text) ==
    LET at == SelectSeq([k \in 1..text.total_words |-> k],
                        LAMBDA k : k \in text.slots)
    IN [j \in 1..Len(at) |-> (at[j] - 1) * (text.word_len + 1)]

RECURSIVE Sum(_)
Sum(seq) == IF seq = <<>> THEN 0 ELSE Head(seq) + Sum(Tail(seq))

\* _calculate_distribution_score: with n positions p, the variance of the
\* p / total_length is (n * sum(p^2) - sum(p)^2) / (n^2 * total_length^2).
_calculate_distribution_score(positions, total_length) ==
    IF Len(positions) <= 1 THEN Frac(1, 2)
    ELSE LET n == Len(positions)
             squares == [k \in 1..n |-> positions[k] * positions[k]]
         IN CapAtOne(Frac(4 * (n * Sum(squares)
                               - Sum(positions) * Sum(positions)),
                          n * n * total_length * total_length))

\* Occurrences counted in full by _calculate_theme_relevance.
RelevanceOccurrences == 10

\* _calculate_theme_relevance, with the number of distinct keywords found.
_calculate_theme_relevance(unique_keywords, total_words, positions) ==
    IF unique_keywords = 0 \/ total_words = 0 THEN Frac(0, 1)
    ELSE LET total_occurrences == Len(positions)
             distribution_score ==
                 _calculate_distribution_score(positions, total_words)
             counted == IF total_occurrences < RelevanceOccurrences
                          THEN total_occurrences ELSE RelevanceOccurrences
         IN CapAtOne(
              FracAdd(FracAdd(Frac(unique_keywords * 3, 10),
                              Frac(counted * 3, RelevanceOccurrences * 10)),
                      FracAdd(Frac(total_occurrences * 100 * 2,
                                   total_words * 10),
                              Frac(distribution_score[1] * 2,
                                   distribution_score[2] * 10))))

\* Variant: only themes that score above 0.8 are kept.
classify_themes_strictFilter(text) ==
    LET relevance_score ==
            _calculate_theme_relevance(text.unique, text.total_words,
                                       KeywordPositions(text))
        themes == IF text.unique = 0 THEN <<>>
                  ELSE << [keyword_count |-> text.unique,
                           total_occurrences |-> Cardinality(text.slots),
                           relevance_score |-> relevance_score] >>
    IN SelectSeq(themes,
                 LAMBDA t : FracLess(Frac(8, 10), t.relevance_score))

\* classify_themes on a text and one category of themes_config, of which
\* text.unique distinct keywords occur in the text; a category none of whose
\* keywords occurs ("if found_keywords:") adds no theme.
classify_themes(text) ==
    LET relevance_score ==
            _calculate_theme_relevance(text.unique, text.total_words,
                                       KeywordPositions(text))
        themes == IF text.unique = 0 THEN <<>>
                  ELSE << [keyword_count |-> text.unique,
                           total_occurrences |-> Cardinality(text.slots),
                           relevance_score |-> relevance_score] >>
    IN SelectSeq(themes,
                 LAMBDA t : FracLess(Frac(1, 10), t.relevance_score))

\* Texts of 1, MaxWords, 10, 10 * MaxWords, 40 and 40 * MaxWords words, with
\* no keyword of the category or with
\* up to MaxOccurrences keyword occurrences among the first MaxWords words
\* and the words that start each further MaxWords-th part of the text. Words
\* of 19 letters make a text of 6 words longer than MinTextLen.
ThemeTexts ==
    LET spots(gap) == (1..MaxWords) \cup { j * gap + 1 : j \in 1..(MaxWords - 1) }
        texts(gap, total_words) ==
            { t \in [total_words : {total_words},
                     word_len : {1, 5} \cup (IF gap = 1 THEN {19} ELSE {}),
                     slots : SUBSET { k \in spots(gap) : k <= total_words },
                     unique : 0..MaxKeywords] :
                /\ (t.slots = {}) <=> (t.unique = 0)
                /\ Cardinality(t.slots) <= MaxOccurrences
                /\ t.unique <= Cardinality(t.slots) }
    IN UNION { texts(gap, gap) \cup texts(gap, gap * MaxWords) :
                 gap \in {1, 10, 40} }

ClassifyThemesArgs == [fn : {"classify_themes"}, text : ThemeTexts]

\* The call of _calculate_distribution_score that _calculate_theme_relevance
\* makes for a text.
DistributionScoreArgs ==
    [fn : {"_calculate_distribution_score"},
     text : { t \in ThemeTexts : t.unique = 1 }]

\* ------------------------------------------------------------ DataExtractor: context
\* Variant: no marker is added.
_get_context_unmarked(text, start, end, context_size) ==
    LET context_start == IF start - context_size > 0
                           THEN start - context_size ELSE 0
        context_end == IF end + context_size < Len(text)
                         THEN end + context_size ELSE Len(text)
    IN Strip(SubSeq(text, context_start + 1, context_end))

\* _get_context: text[context_start:context_end] is SubSeq(text,
\* context_start + 1, context_end); "..." is three characters.
_get_context(text, start, end, context_size) ==
    LET context_start == IF start - context_size > 0
                           THEN start - context_size ELSE 0
        context_end == IF end + context_size < Len(text)
                         THEN end + context_size ELSE Len(text)
        context == SubSeq(text, context_start + 1, context_end)
        prefixed == IF context_start > 0 THEN <<".", ".", ".">> \o context
                    ELSE context
        suffixed == IF context_end < Len(text)
                      THEN prefixed \o <<".", ".", ".">> ELSE prefixed
    IN Strip(suffixed)

\* Calls of _get_context on a match [start, end) of a text of up to MaxTextLen
\* characters; _get_themes_context passes pos + 10 as end, which may lie
\* past the end of the text.
GetContextArgs ==
    { a \in [fn : {"_get_context"},
             text : UNION { [1..n -> {"a", " "}] : n \in 0..MaxTextLen },
             start : 0..MaxTextLen, end : 0..(MaxTextLen + 1),
             context_size : {0, 1, 2}] :
        /\ a.start <= Len(a.text)
        /\ a.start <= a.end
        /\ a.end <= Len(a.text) + 1 }

\* ------------------------------------------------------------ specification
\* The steps of a run in progress.
Steps ==
    \/ NextBatch
    \/ Abort
    \/ Finish
    \/ \E i \in Items : TaskStart(i)
    \/ \E i \in Items : LocalPick(i)
    \/ \E i \in Items : CheckItem(i)
    \/ \E i \in Items : DownloadPdf(i)
    \/ \E i \in Items : ValidatePdf(i)
    \/ \E i \in Items : ExtractText(i)
    \/ \E i \in Items : ExtractAll(i)
    \/ \E i \in Items : IndexDocument(i)

\* One run of a freshly constructed DocumentProcessor, for every batch size
\* and worker bound.
Next ==
    \/ Construct
    \/ Setup
    \/ run_processing
    \/ process_local_pdfs
    \/ \E i \in Items : TaskBlock(i)
    \/ Steps

Spec == Init /\ [][Next]_vars

\* Up to MaxRuns runs on one instance with the default arguments, over inputs
\* of at most RerunItems items.
InitRerun == Init /\ pdf_dir \subseteq 1..RerunItems

NextRerun ==
    \/ Construct
    \/ SetupRerun
    \/ run_processing_default
    \/ process_local_pdfs_default
    \/ run_again
    \/ Steps

SpecRerun == InitRerun /\ [][NextRerun]_vars

\* ------------------------------------------------------------ the store alone
\* index_document, get_by_id and delete_document called in any order by a
\* client of ElasticsearchManager such as scripts/test_elasticsearch.py.
StoreIds == { <<"oid", k>> : k \in 1..MaxDocIds }

\* Documents callers submit: with and without the required fields, a null
\* field, a bare-year date, a processing timestamp of their own.
StoreDocs ==
    { [titulo |-> "Documento de Teste", autor |-> "Sistema de Teste"],
      [titulo |-> None, data |-> "1532"],
      ("metadata.processed_at" :> "2024-01-01")
          @@ [titulo |-> "Carta", filename |-> "carta.pdf"] }

\* The ids a caller can ask for: the ones it passed, the ones it was returned.
KnownIds == StoreIds \cup { h.id : h \in es }

index_document ==
    \E document \in StoreDocs, doc_id \in StoreIds \cup {NoDocId},
       reply \in Replies :
        /\ arg' = [fn |-> "index_document", document |-> document,
                   doc_id |-> doc_id, reply |-> reply]
        /\ ret' = index_document_result(document, doc_id, reply)
        /\ es' = IF reply = "ok" THEN Indexed(es, document, doc_id) ELSE es
        /\ UNCHANGED processor

get_by_id ==
    \E doc_id \in KnownIds, reply \in Replies :
        /\ arg' = [fn |-> "get_by_id", doc_id |-> doc_id, reply |-> reply]
        /\ ret' = get_by_id_result(es, doc_id, reply)
        /\ UNCHANGED <<processor, es>>

delete_document ==
    \E doc_id \in KnownIds, reply \in Replies :
        /\ arg' = [fn |-> "delete_document", doc_id |-> doc_id, reply |-> reply]
        /\ ret' = delete_document_result(es, doc_id, reply)
        /\ es' = IF reply = "ok" THEN EsDelete(es, doc_id) ELSE es
        /\ UNCHANGED processor

\* No DocumentProcessor is involved: its state stays as before construction.
NoProcessor ==
    /\ config = [dir |-> TRUE, files |-> ConfigFiles]
    /\ pdf_dir = {}
    /\ NotConstructed

InitStore ==
    /\ NoProcessor
    /\ es = {}
    /\ arg = NoCall
    /\ ret = NotCalled

NextStore ==
    \/ index_document
    \/ get_by_id
    \/ delete_document

SpecStore == InitStore /\ [][NextStore]_vars

\* ------------------------------------------------------------ functions alone
\* One call of one function: the arguments are drawn at the start, the call
\* is the only step.
AssembleDocument ==
    /\ arg.fn = "_process_single_pdf"
    /\ ~ret.called
    /\ ret' = Returned(ManifestDocument(arg.source_item, arg.metadata,
                                        arg.pdf_filename))
    /\ UNCHANGED <<processor, es, arg>>

AssembleLocalDocument ==
    /\ arg.fn = "process_single_pdf_file"
    /\ ~ret.called
    /\ ret' = Returned(LocalDocument(arg.metadata, arg.pdf_filename))
    /\ UNCHANGED <<processor, es, arg>>

ValidatePdfCall ==
    /\ arg.fn = "validate_pdf"
    /\ ~ret.called
    /\ ret' = Returned(validate_pdf(arg.file))
    /\ UNCHANGED <<processor, es, arg>>

ExtractTextCall ==
    /\ arg.fn = "extract_text"
    /\ ~ret.called
    /\ ret' = extract_text(arg.file, arg.primary, arg.secondary)
    /\ UNCHANGED <<processor, es, arg>>

CleanTextCall ==
    /\ arg.fn = "_clean_text"
    /\ ~ret.called
    /\ ret' = Returned(_clean_text(arg.text))
    /\ UNCHANGED <<processor, es, arg>>

DeduplicateCall ==
    /\ arg.fn \in {"_deduplicate_dates", "_deduplicate_names",
                   "_deduplicate_places"}
    /\ ~ret.called
    /\ ret' = Returned(CASE arg.fn = "_deduplicate_dates"
                               -> _deduplicate_dates(arg.list)
                          [] arg.fn = "_deduplicate_names"
                               -> _deduplicate_names(arg.list)
                          [] arg.fn = "_deduplicate_places"
                               -> _deduplicate_places(arg.list))
    /\ UNCHANGED <<processor, es, arg>>

PeriodModifierCall ==
    /\ arg.fn = "_apply_period_modifier"
    /\ ~ret.called
    /\ ret' = Returned(_apply_period_modifier(arg.base_year, arg.period_text,
                                              arg.part_map))
    /\ UNCHANGED <<processor, es, arg>>

ExtractDatesCall ==
    /\ arg.fn = "extract_dates"
    /\ ~ret.called
    /\ ret' = Returned(extract_dates(arg.year_matches, arg.textual_matches,
                                     arg.date_config))
    /\ UNCHANGED <<processor, es, arg>>

ExtractNamesCall ==
    /\ arg.fn = "extract_names"
    /\ ~ret.called
    /\ ret' = Returned(extract_names(arg.matches))
    /\ UNCHANGED <<processor, es, arg>>

ExtractPlacesCall ==
    /\ arg.fn = "extract_places"
    /\ ~ret.called
    /\ ret' = Returned(extract_places(arg.places_normalized, arg.findings))
    /\ UNCHANGED <<processor, es, arg>>

ClassifyThemesCall ==
    /\ arg.fn = "classify_themes"
    /\ ~ret.called
    /\ ret' = Returned(classify_themes(arg.text))
    /\ UNCHANGED <<processor, es, arg>>

DistributionScoreCall ==
    /\ arg.fn = "_calculate_distribution_score"
    /\ ~ret.called
    /\ ret' = Returned(_calculate_distribution_score(
                           KeywordPositions(arg.text), arg.text.total_words))
    /\ UNCHANGED <<processor, es, arg>>

CenturyFromYearCall ==
    /\ arg.fn = "_get_century_from_year"
    /\ ~ret.called
    /\ ret' = Returned(_get_century_from_year(arg.year))
    /\ UNCHANGED <<processor, es, arg>>

GetContextCall ==
    /\ arg.fn = "_get_context"
    /\ ~ret.called
    /\ ret' = Returned(_get_context(arg.text, arg.start, arg.end,
                                    arg.context_size))
    /\ UNCHANGED <<processor, es, arg>>

InitFunctions ==
    /\ NoProcessor
    /\ es = {}
    /\ ret = NotCalled
    /\ \/ arg \in AssembleArgs
       \/ arg \in AssembleLocalArgs
       \/ arg \in ValidatePdfArgs
       \/ arg \in ExtractTextArgs
       \/ arg \in CleanTextArgs
       \/ arg \in DeduplicateArgs
       \/ arg \in PeriodModifierArgs
       \/ arg \in ExtractDatesArgs
       \/ arg \in ExtractNamesArgs
       \/ arg \in ExtractPlacesArgs
       \/ arg \in ClassifyThemesArgs
       \/ arg \in DistributionScoreArgs
       \/ arg \in GetContextArgs
       \/ arg \in CenturyFromYearArgs

NextFunctions ==
    \/ AssembleDocument
    \/ AssembleLocalDocument
    \/ ValidatePdfCall
    \/ ExtractTextCall
    \/ CleanTextCall
    \/ DeduplicateCall
    \/ PeriodModifierCall
    \/ ExtractDatesCall
    \/ ExtractNamesCall
    \/ ExtractPlacesCall
    \/ ClassifyThemesCall
    \/ DistributionScoreCall
    \/ GetContextCall
    \/ CenturyFromYearCall

SpecFunctions == InitFunctions /\ [][NextFunctions]_vars

\* ------------------------------------------------------------ history helpers
OpsOf(i) == { calls[i][k].op : k \in 1..Len(calls[i]) }

CountOp(i, op) == Cardinality({ k \in 1..Len(calls[i]) : calls[i][k].op = op })

LastCall(i) == calls[i][Len(calls[i])]

EndedWith(i, op, results) ==
    /\ Len(calls[i]) > 0
    /\ LastCall(i).op = op
    /\ LastCall(i).res \in results

Counted == stats.processed + stats.errors + stats.skipped

\* The step that appends the call (op, res) to the history of item i.
StepOf(i, op, results) ==
    /\ i \in DOMAIN calls /\ i \in DOMAIN calls'
    /\ Len(calls'[i]) = Len(calls[i]) + 1
    /\ calls'[i][Len(calls'[i])].op = op
    /\ calls'[i][Len(calls'[i])].res \in results

OthersUntouched(i) ==
    \A j \in DOMAIN pc : j # i => j \in DOMAIN pc' /\ pc'[j] = pc[j]

\* ------------------------------------------------------------ claims

\* C1: when run_processing (manifest mode) or process_local_pdfs (directory
\* mode) has completed on a freshly constructed DocumentProcessor,
\* processed + errors + skipped equals total_files, whatever the input set and
\* the per-item outcomes.
C1_CountersAddUp ==
    phase \in {"done", "returned_no_summary"} => Counted = stats.total_files

\* A completed manifest run of two items, one submitted and one not.
C1_Witness ==
    /\ phase = "done" /\ mode = "manifest"
    /\ stats.total_files = 2
    /\ stats.processed = 1
    /\ stats.skipped = 1
    /\ \E i \in Items : EndedWith(i, "check", {"skip"})

\* C2: every text-extraction failure of a validated item (extract_text raising,
\* or returning a text under the minimum length) ends the item in Skipped, with
\* no error counted and no submission.
C2_ExtractionFailureIsSkipped ==
    \A i \in Items :
        EndedWith(i, "extract_text", {"raise", "short"})
            => /\ pc[i] = "Skipped"
               /\ ~(\E k \in 1..Len(stats.errors_detail) :
                       stats.errors_detail[k] = <<i, "exception">>)

\* C3: every item that ends a run in Skipped or Failed, including the items
\* skipped for a missing PDF link or id, has appended exactly one entry to
\* errors_detail: at run completion len(errors_detail) = errors + skipped.
C3_EveryFailureRecorded ==
    phase = "done" => Len(stats.errors_detail) = stats.errors + stats.skipped

\* C4: a download failure or a store failure ends the item in Failed: errors
\* grows by exactly 1, processed and skipped are unchanged, the item is
\* downloaded and submitted at most once in the run, the failure is the last
\* thing done to the item, the run goes on and the other items are untouched
\* by the failing step and all terminal when the run is done.
C4_IoFailureIsFailed ==
    /\ [](\A i \in Items :
            /\ CountOp(i, "fetch") <= 1
            /\ CountOp(i, "index_document") <= 1
            /\ (EndedWith(i, "fetch", {"http_error", "partial"})
                \/ EndedWith(i, "index_document", {FALSE}))
                   => pc[i] = "Failed")
    /\ [](phase = "done" => \A i \in Items : pc[i] \in Terminal)
    /\ [][\A i \in DOMAIN pc :
            (StepOf(i, "fetch", {"http_error", "partial"})
             \/ StepOf(i, "index_document", {FALSE}))
                => /\ stats'.errors = stats.errors + 1
                   /\ stats'.processed = stats.processed
                   /\ stats'.skipped = stats.skipped
                   /\ phase' = phase
                   /\ OthersUntouched(i)]_vars

\* A completed run in which one item failed to download, another failed at the
\* store, and nothing else was counted as an error.
C4_Witness ==
    /\ phase = "done"
    /\ stats.errors = 2
    /\ \E i, j \in Items :
         /\ pc[i] = "Failed" /\ EndedWith(i, "fetch", {"http_error"})
         /\ pc[j] = "Failed" /\ EndedWith(j, "index_document", {FALSE})

\* C5: when validate_pdf returns False the item ends in Skipped, not Failed:
\* skipped grows by exactly 1, errors and processed are unchanged, and neither
\* extract_text, extract_all nor index_document is called for the item.
C5_InvalidPdfIsSkipped ==
    /\ [](\A i \in Items :
            (\E k \in 1..Len(calls[i]) :
                calls[i][k].op = "validate_pdf" /\ calls[i][k].res = FALSE)
            => /\ pc[i] = "Skipped"
               /\ OpsOf(i) \cap {"extract_text", "extract_all",
                                  "index_document"} = {})
    /\ [][\A i \in DOMAIN pc :
            StepOf(i, "validate_pdf", {FALSE})
                => /\ stats'.skipped = stats.skipped + 1
                   /\ stats'.errors = stats.errors
                   /\ stats'.processed = stats.processed]_vars

\* A downloaded item that validate_pdf rejected, in a completed run.
C5_Witness ==
    /\ phase = "done" /\ mode = "manifest"
    /\ \E i \in Items :
         /\ pc[i] = "Skipped"
         /\ OpsOf(i) = {"check", "fetch", "validate_pdf"}
         /\ EndedWith(i, "validate_pdf", {FALSE})

\* Every item of the manifest that reaches the download has its cache file.
CachePopulated ==
    \A i \in Items :
        ItemCheck(source_data[i]) = "resolved" => work[i] \in cache_at_start

\* C6: a second run over the same manifest, started with the cache file of
\* every item present, performs no network fetch, and every document it
\* submits goes under the id derived from source_id, the id the first run
\* used for it.
C6_RerunUsesCacheAndSameIds ==
    (runs >= 2 /\ mode = "manifest" /\ CachePopulated)
        => \A i \in Items :
             /\ "fetch" \notin OpsOf(i)
             /\ ids[i] # NoId
                  => /\ ids[i] = <<"oid", i>>
                     /\ prev_ids[i] # NoId => ids[i] = prev_ids[i]

\* A completed second run over a cached manifest whose item was submitted in
\* both runs.
C6_Witness ==
    /\ runs = 2 /\ mode = "manifest" /\ phase = "done"
    /\ NItems >= 1
    /\ CachePopulated
    /\ \E i \in Items :
         /\ EndedWith(i, "index_document", {TRUE})
         /\ "download" \in OpsOf(i)
         /\ prev_ids[i] # NoId

\* C7: in run_processing with max_workers = N, at most N items hold the
\* semaphore (are past admission and not yet terminal).
C7_AtMostNAdmitted ==
    mode = "manifest"
        => Cardinality({ i \in Items : pc[i] \in InFlight }) <= max_workers

\* A batch of two tasks with one permit: one item is being processed while
\* the other has not been admitted.
C7_Witness ==
    /\ mode = "manifest" /\ phase = "running"
    /\ max_workers = 1 /\ batch_size = 2
    /\ \E i, j \in Items : pc[i] = "Validated" /\ pc[j] = "Scheduled"

\* C8: batches run strictly one after another: no item of a later batch has
\* left Pending while an item of an earlier batch is not terminal.
C8_BatchesAreSequential ==
    \A i, j \in Items :
        (BatchOf(i) < BatchOf(j) /\ pc[j] # "Pending") => pc[i] \in Terminal

\* Two batches of one item: the second item is being processed.
C8_Witness ==
    /\ mode = "manifest" /\ phase = "running"
    /\ batch_size = 1 /\ NItems = 2
    /\ pc[2] \in InFlight
    /\ pc[1] \in Terminal

\* C9: every started run ends by emitting the summary (print_stats), for any
\* manifest content and an empty input set; no per-item condition ends the
\* run before the remaining items are processed.
C9_RunEndsWithSummary ==
    /\ phase \notin {"aborted", "returned_no_summary"}
    /\ phase = "done" => \A i \in Items : pc[i] \in Terminal

ConfigBroken == ~config.dir \/ config.files # ConfigFiles

\* C10: with the configuration directory or one of the four reference-data
\* files missing or unreadable, construction fails and no item ever leaves
\* Pending: nothing is downloaded, validated, extracted or submitted.
C10_FailFastOnConfig ==
    ConfigBroken
        => /\ phase \in {"new", "init_failed"}
           /\ runs = 0
           /\ pc = <<>> /\ calls = <<>>
           /\ stats = EmptyStats

\* Construction failed because one file is missing from an existing directory.
C10_Witness ==
    /\ phase = "init_failed"
    /\ config.dir
    /\ config.files = ConfigFiles \ {"themes.json"}

\* C11: the statistics are reset per run: at the start of every run on a
\* DocumentProcessor processed, errors and skipped are 0 and errors_detail is
\* empty, so processed + errors + skipped = total_files holds at the end of
\* every run on the instance, the second included.
C11_StatsResetPerRun ==
    /\ (phase = "running" /\ offset = -1)
          => /\ stats.processed = 0 /\ stats.errors = 0 /\ stats.skipped = 0
             /\ stats.errors_detail = <<>>
    /\ phase = "done" => Counted = stats.total_files

HitsUnder(index, id) == { h \in index : h.id = id }

ElsewhereThan(index, id) == { h \in index : h.id # id }

\* C13: store round trip.  index_document(doc, id) with a given id, answered
\* by the store, returns that id and leaves exactly one document under it, new
\* or overwritten, holding every value the caller supplied (a bare-year "data"
\* is stored as a date), and touches no other id; get_by_id returns what is
\* stored under the id, None when nothing is, and changes nothing;
\* delete_document never raises, returns True exactly when the store answered
\* and held the id, and then nothing is left under it, so that a following
\* get_by_id returns None and a following delete_document returns False.
C13_StoreRoundTrip ==
    /\ [][(arg'.fn = "index_document" /\ arg'.reply = "ok"
                /\ arg'.doc_id # NoDocId)
            => /\ ret' = Returned(arg'.doc_id)
               /\ Cardinality(HitsUnder(es', arg'.doc_id)) = 1
               /\ \A f \in DOMAIN arg'.document :
                     (arg'.document[f] # None /\ f # "data")
                        => EsSource(es', arg'.doc_id)[f] = arg'.document[f]
               /\ ElsewhereThan(es', arg'.doc_id)
                     = ElsewhereThan(es, arg'.doc_id)]_vars
    /\ [][(arg'.fn = "get_by_id" /\ arg'.reply = "ok")
            => /\ es' = es
               /\ ~ret'.raised
               /\ HitsUnder(es, arg'.doc_id) = {}
                     => ret'.value = None
               /\ HitsUnder(es, arg'.doc_id) # {}
                     => \E h \in es : /\ h.id = arg'.doc_id
                                      /\ ret'.value = h.source]_vars
    /\ [][arg'.fn = "delete_document"
            => /\ ~ret'.raised
               /\ ret'.value = (arg'.reply = "ok"
                                /\ HitsUnder(es, arg'.doc_id) # {})
               /\ arg'.reply = "ok" => HitsUnder(es', arg'.doc_id) = {}
               /\ ElsewhereThan(es', arg'.doc_id)
                     = ElsewhereThan(es, arg'.doc_id)]_vars

\* delete_document has just returned True for an id, nothing is left under
\* that id and another document is still stored.
C13_Witness ==
    /\ arg.fn = "delete_document"
    /\ ret.value = TRUE
    /\ HitsUnder(es, arg.doc_id) = {}
    /\ es # {}

\* C12: in the assembled document the title is the source record's value when
\* the source provides one, else the PDF metadata title when it is not empty,
\* else the default derived from the file name; likewise the author, with a
\* default of its own: neither is ever empty or null.
C12_TitlePrecedence ==
    (arg.fn \in {"_process_single_pdf", "process_single_pdf_file"}
        /\ ret.called)
    => LET source == IF arg.fn = "_process_single_pdf"
                       THEN arg.source_item ELSE <<>>
           Provided(k) == k \in DOMAIN source /\ source[k] \notin {None, ""}
           Preferred(k, m, default) ==
               IF Provided(k) THEN source[k]
               ELSE IF arg.metadata[m] # "" THEN arg.metadata[m]
               ELSE default
       IN /\ ret.value.titulo
                = Preferred("titulo", "title", Stem(arg.pdf_filename))
          /\ ret.value.autor \notin {None, ""}
          /\ (Provided("autor") \/ arg.metadata.author # "")
                => ret.value.autor
                     = Preferred("autor", "author", ret.value.autor)

\* C14: validate_pdf returns True exactly when the file exists, its size is
\* above 0 and not above the 50 MB ceiling, and its page count can be read and
\* is at least 1; in every other case it returns False, and it never raises.
C14_ValidatePdf ==
    (arg.fn = "validate_pdf" /\ ret.called)
    => /\ ~ret.raised
       /\ ret.value = (/\ arg.file.exists
                       /\ 0 < arg.file.size
                       /\ arg.file.size <= max_file_size
                       /\ arg.file.access = "ok"
                       /\ arg.file.structure = "ok"
                       /\ arg.file.pages >= 1)

\* A file of exactly the maximum size was accepted.
C14_Witness ==
    /\ arg.fn = "validate_pdf" /\ ret.called
    /\ arg.file.size = max_file_size
    /\ ret.value = TRUE

\* The text extract_text normalizes: the secondary strategy's when that was
\* run, else the primary's.
Normalized15 ==
    _clean_text(IF Len(ret.tried) = 2 THEN arg.secondary ELSE arg.primary)

\* C15 (as amended): on a valid PDF extract_text runs the secondary strategy
\* exactly when the primary one yields fewer than 100 characters of trimmed
\* text; it fails exactly when the normalized text, trimmed of the white space
\* and blank lines around it, has fewer than 50 characters; otherwise it
\* returns the normalized text, whose length is at least 50.
C15_ExtractText ==
    (arg.fn = "extract_text" /\ ret.called /\ validate_pdf(arg.file))
    => /\ ret.tried[1] = "pdfplumber"
       /\ ret.tried = <<"pdfplumber", "PyPDF2">>
             <=> Len(Strip(arg.primary)) < MinPrimaryText
       /\ ret.raised <=> Len(Strip(Normalized15)) < MinMeaningfulText
       /\ ~ret.raised => /\ ret.value = Normalized15
                         /\ Len(ret.value) >= MinMeaningfulText

\* C15 as stated: the failure is decided on the length of the normalized
\* text itself.
C15_AsStated ==
    (arg.fn = "extract_text" /\ ret.called /\ validate_pdf(arg.file))
    => /\ ret.tried = <<"pdfplumber", "PyPDF2">>
             <=> Len(Strip(arg.primary)) < MinPrimaryText
       /\ ret.raised <=> Len(Normalized15) < MinMeaningfulText
       /\ ~ret.raised => /\ ret.value = Normalized15
                         /\ Len(ret.value) >= MinMeaningfulText

\* extract_text failed on a normalized text of 50 characters or more: 49
\* characters after two blank lines, from the secondary strategy.
C15_Witness ==
    /\ arg.fn = "extract_text" /\ ret.called /\ validate_pdf(arg.file)
    /\ ret.tried = <<"pdfplumber", "PyPDF2">>
    /\ ret.raised
    /\ Len(Normalized15) >= MinMeaningfulText

\* A line that holds nothing but white space and control characters.
IsBlank(line) ==
    \A k \in 1..Len(line) : line[k] \in Whitespace \cup ControlChars

NonBlank(lines) == Cardinality({ k \in 1..Len(lines) : ~IsBlank(lines[k]) })

\* C16: _clean_text turns every line break of the input ("\r\n", a lone "\r",
\* "\n") into one "\n", so the lines of the input that are not blank are as
\* many as those of the output (two lines separated by a lone "\r" stay two
\* lines); the output holds no control character other than tab and newline,
\* and never more than two consecutive blank lines.
C16_CleanText ==
    (arg.fn = "_clean_text" /\ ret.called)
    => LET out == SplitLines(ret.value)
       IN /\ NonBlank(out) = NonBlank(SplitLines(NormalizeBreaks(arg.text)))
          /\ \A k \in 1..Len(ret.value) : ret.value[k] \notin ControlChars
          /\ \A k \in 1..(Len(out) - 2) :
                ~(out[k] = <<>> /\ out[k + 1] = <<>> /\ out[k + 2] = <<>>)

\* C19: a textual century mention with base year B and a period qualifier
\* mapped to (start_pct, end_pct) gets the range
\* (B + floor(start_pct * 99 / 100), B + floor(end_pct * 99 / 100)), which
\* lies within [B, B + 99] with year <= year_end; a mention whose qualifier is
\* absent or matches no entry gets (B, B + 99). "Primeira metade do seculo
\* XVI", with "xvi" mapped to 1500 and "primeira metade" to (0, 50), gives one
\* textual entity of century "XVI" whose year lies in 1500..1549.
C19_PeriodRange ==
    /\ (arg.fn = "_apply_period_modifier" /\ ret.called)
       => LET B == arg.base_year
              text == Lower(arg.period_text)
              matching == { k \in 1..Len(arg.part_map) :
                              Contains(text, arg.part_map[k].key) }
          IN /\ B <= ret.value[1] /\ ret.value[1] <= ret.value[2]
             /\ ret.value[2] <= B + 99
             /\ IF matching = {} THEN ret.value = <<B, B + 99>>
                ELSE \E k \in matching :
                        ret.value =
                            <<B + ((arg.part_map[k].span[1] * 99) \div 100),
                              B + ((arg.part_map[k].span[2] * 99) \div 100)>>
    /\ (/\ arg.fn = "extract_dates" /\ ret.called
        /\ arg.year_matches = <<>>
        /\ arg.textual_matches =
               << [century |-> <<"X", "V", "I">>,
                   part |-> <<"Primeira", " ", "metade">>,
                   position |-> 10] >>
        /\ \E k \in 1..Len(arg.date_config.century_map) :
              arg.date_config.century_map[k] =
                  [key |-> <<"x", "v", "i">>, year |-> 1500])
       => /\ Len(ret.value) = 1
          /\ ret.value[1].type = "textual"
          /\ ret.value[1].century = "XVI"
          /\ ret.value[1].year \in 1500..1549
          /\ ret.value[1].year <= ret.value[1].year_end
          /\ ret.value[1].year_end <= 1599

\* _apply_period_modifier narrowed a century to its second half: the
\* qualifier matched an entry mapped to (50, 100).
C19_Witness ==
    /\ arg.fn = "_apply_period_modifier" /\ ret.called
    /\ arg.period_text = <<"segunda", " ", "metade">>
    /\ Len(arg.part_map) >= 1
    /\ arg.part_map[1] =
           [key |-> <<"segunda", " ", "metade">>, span |-> <<50, 100>>]
    /\ ret.value = <<arg.base_year + 49, arg.base_year + 99>>

\* C18: each _deduplicate_* method returns a list that it leaves unchanged
\* when applied again, and in which no two dates share (year, position div
\* 50), no two names share the unaccented lower-cased full name, and no two
\* places share (location, capitania).
C18_Deduplicated ==
    LET out == ret.value
        Distinct(Key(_)) ==
            \A a, b \in 1..Len(out) : a # b => Key(out[a]) # Key(out[b])
        Year50(d) == <<d.year, d.position \div 50>>
        Plain(n) == IF n.full_name = "Rui Costa" THEN "rui costa"
                    ELSE "ana costa"
        Where(p) == <<p.location, p.capitania>>
    IN /\ (arg.fn = "_deduplicate_dates" /\ ret.called)
          => _deduplicate_dates(out) = out /\ Distinct(Year50)
       /\ (arg.fn = "_deduplicate_names" /\ ret.called)
          => _deduplicate_names(out) = out /\ Distinct(Plain)
       /\ (arg.fn = "_deduplicate_places" /\ ret.called)
          => _deduplicate_places(out) = out /\ Distinct(Where)

\* _deduplicate_dates dropped a date: the same year at positions 0 and 49,
\* followed by the same year at position 50, which is kept.
C18_Witness ==
    /\ arg.fn = "_deduplicate_dates" /\ ret.called
    /\ arg.list = << [year |-> 1532, position |-> 0],
                     [year |-> 1532, position |-> 49],
                     [year |-> 1532, position |-> 50] >>
    /\ ret.value = << [year |-> 1532, position |-> 0],
                      [year |-> 1532, position |-> 50] >>

\* C17: every entity that extract_dates, extract_names, extract_places and
\* classify_themes emit has a confidence (a relevance_score for themes)
\* between 0.0 and 1.0, whatever the matches, the number of matched keywords,
\* the number of occurrences and the number of words.
C17_UnitInterval ==
    LET InUnit(x) == /\ x[2] > 0
                     /\ 0 <= x[1]
                     /\ x[1] <= x[2]
    IN /\ (ret.called
           /\ arg.fn \in {"extract_dates", "extract_names", "extract_places"})
          => \A k \in 1..Len(ret.value) : InUnit(ret.value[k].confidence)
       /\ (ret.called /\ arg.fn = "classify_themes")
          => \A k \in 1..Len(ret.value) : InUnit(ret.value[k].relevance_score)

\* classify_themes scored a text of MaxWords words in which two keywords of
\* the category occur three times: the weighted sum is far above 1 (the
\* density term alone is 20 * 3 / MaxWords) and the entity carries 1.0.
C17_Witness ==
    /\ arg.fn = "classify_themes" /\ ret.called
    /\ arg.text.total_words = MaxWords
    /\ arg.text.unique = 2
    /\ Cardinality(arg.text.slots) = 3
    /\ Len(ret.value) = 1
    /\ ret.value[1].relevance_score = <<1, 1>>

\* C20: of two texts of equal length and word count with the same number
\* (at least 2) of occurrences of a keyword, the one whose occurrences stand
\* in adjacent words gets a strictly lower distribution component than the
\* one whose occurrences are evenly spaced over the document; and the
\* component is min(4 * variance, 1.0) of the occurrence positions divided
\* by the length of the text.
C20_DistributionScore ==
    (arg.fn = "_calculate_distribution_score" /\ ret.called
     /\ Cardinality(arg.text.slots) >= 2)
    => LET text == arg.text
           n == Cardinality(text.slots)
           length == text.total_words * (text.word_len + 1) - 1
           positions == KeywordPositions(text)
           squares == [k \in 1..n |-> positions[k] * positions[k]]
           variance == Frac(n * Sum(squares) - Sum(positions) * Sum(positions),
                            n * n * length * length)
           step == text.total_words \div n
           Adjacent(slots) ==
               \E first \in slots : slots = first..(first + n - 1)
           Even(slots) ==
               slots = { 1 + k * step : k \in 0..(n - 1) }
       IN /\ ret.value = (IF variance[1] * 4 <= variance[2]
                            THEN Frac(variance[1] * 4, variance[2])
                            ELSE Frac(1, 1))
          /\ (Adjacent(text.slots) /\ step >= 2)
             => \A other \in DistributionScoreArgs :
                   (/\ other.text.total_words = text.total_words
                    /\ other.text.word_len = text.word_len
                    /\ Even(other.text.slots))
                   => FracLess(ret.value,
                               _calculate_distribution_score(
                                   KeywordPositions(other.text),
                                   other.text.total_words))

C22_CenturyLabel ==
    LET Label(y) ==
            CASE y \in 1500..1599 -> "XVI"
              [] y \in 1600..1699 -> "XVII"
              [] y \in 1700..1799 -> "XVIII"
              [] y \in 1800..1899 -> "XIX"
              [] OTHER -> ToString((y \div 100) + 1)
    IN /\ (arg.fn = "_get_century_from_year" /\ ret.called)
          => ret.value = Label(arg.year)
       /\ (arg.fn = "extract_dates" /\ ret.called)
          => \A k \in 1..Len(ret.value) :
                ret.value[k].century = Label(ret.value[k].year)

\* _get_century_from_year labelled the first year of the table's first
\* century.
C22_Witness ==
    /\ arg.fn = "_get_century_from_year" /\ ret.called
    /\ arg.year = 1500
    /\ ret.value = "XVI"

\* The number of items of the current run that are in the given state.
EndedIn(state) == Cardinality({ i \in Items : pc[i] = state })

\* C23: no update of the statistics is lost, whatever the order in which the
\* event loop runs the admitted items: all along a run, and so at its
\* completion, processed, errors and skipped equal the number of items that
\* ended Submitted, Failed and Skipped, and errors_detail holds one entry for
\* every counted item but those skipped for a missing field.
C23_NoLostUpdate ==
    phase \in {"running", "done"}
    => /\ stats.processed = EndedIn("Submitted")
       /\ stats.errors = EndedIn("Failed")
       /\ stats.skipped = EndedIn("Skipped")
       /\ Len(stats.errors_detail)
            = EndedIn("Failed") + EndedIn("Skipped")
              - Cardinality({ i \in Items : EndedWith(i, "check", {"skip"}) })

\* A completed run_processing with two permits and both items in one batch,
\* both skipped after acquisition: two updates of the same counter.
C23_Witness ==
    /\ phase = "done" /\ mode = "manifest"
    /\ batch_size = 2 /\ max_workers = 2 /\ NItems = 2
    /\ EndedWith(1, "validate_pdf", {FALSE})
    /\ EndedWith(2, "extract_text", {"short"})
    /\ stats.skipped = 2

\* C24: within run_processing the suspension points of an item are exactly
\* its remote download and its submission to the store: while an item is in
\* either, another task of the batch for which the semaphore has a permit can
\* take its step; while an item is in validation, text extraction or entity
\* extraction, no other item can take a step.
C24_SuspensionPoints ==
    (phase = "running" /\ mode = "manifest")
    => \A i, j \in Items :
         i # j
         => /\ ( /\ cur = i
                 /\ \/ pc[i] = "Resolved" /\ ~CacheHit(work[i], pdf_dir)
                    \/ pc[i] = "EntitiesExtracted"
                 /\ pc[j] \in {"Scheduled", "Waiting"}
                 /\ sem > 0 )
               => ENABLED TaskStart(j)
            /\ ( /\ cur = i
                 /\ pc[i] \in {"Acquired", "Validated", "TextExtracted"} )
               => ~ENABLED ( \/ TaskStart(j) \/ TaskBlock(j) \/ CheckItem(j)
                             \/ DownloadPdf(j) \/ ValidatePdf(j)
                             \/ ExtractText(j) \/ ExtractAll(j)
                             \/ IndexDocument(j) )

\* C25: a century phrase whose century text is, letter case apart, a key of
\* the configured century table yields a date entity based on the year the
\* table holds for that key, also when another key is a substring of it and
\* whatever the order of the entries; a century text that contains no key
\* yields no date entity.  (A phrase without period fragment: the entity
\* starts at the base year.)
C25_CenturyMapping ==
    ( /\ arg.fn = "extract_dates" /\ ret.called
      /\ arg.year_matches = <<>>
      /\ Len(arg.textual_matches) = 1
      /\ arg.textual_matches[1].part = <<>> )
    => LET century_text == Lower(arg.textual_matches[1].century)
           table == arg.date_config.century_map
       IN /\ \A k \in 1..Len(table) :
                table[k].key = century_text
                => /\ Len(ret.value) = 1
                   /\ ret.value[1].year = table[k].year
                   /\ ret.value[1].year_end = table[k].year + 99
          /\ (\A k \in 1..Len(table) : ~Contains(century_text, table[k].key))
             => ret.value = <<>>

\* C26: in the relevance score of a theme the unique-keyword component never
\* contributes more than 0.3, whatever the number of distinct keywords
\* matched, and the occurrence component never more than 0.3: the score is
\* min(1.0, min(unique, 1) * 0.3 + min(occurrences / 10, 1) * 0.3
\*          + density * 100 * 0.2 + distribution * 0.2),
\* with the distribution score as _calculate_theme_relevance obtains it.
C26_CappedComponents ==
    (arg.fn = "classify_themes" /\ ret.called /\ Len(ret.value) = 1)
    => LET unique == arg.text.unique
           occurrences == Cardinality(arg.text.slots)
           total_words == arg.text.total_words
           distribution ==
               _calculate_distribution_score(KeywordPositions(arg.text),
                                             total_words)
           keyword_part == Frac((IF unique < 1 THEN unique ELSE 1) * 3, 10)
           occurrence_part ==
               Frac((IF occurrences < 10 THEN occurrences ELSE 10) * 3, 100)
           density_part == Frac(occurrences * 20, total_words)
           distribution_part == Frac(distribution[1] * 2,
                                     distribution[2] * 10)
       IN /\ ~FracLess(Frac(3, 10), keyword_part)
          /\ ~FracLess(Frac(3, 10), occurrence_part)
          /\ ret.value[1].relevance_score
               = CapAtOne(FracAdd(FracAdd(keyword_part, occurrence_part),
                                  FracAdd(density_part, distribution_part)))

\* C27: after _download_pdf has returned False for a path that held no file
\* before the call, no file is at that path of the cache.
C27_FailedDownloadLeavesNoFile ==
    \A i \in Items :
        ( /\ mode = "manifest"
          /\ EndedWith(i, "fetch", {"http_error", "partial"})
          /\ work[i] \notin cache_at_start )
        => work[i] \notin pdf_dir

\* The positions of the history of item i that hold the call (op, res).
CallsAt(i, op, res) ==
    { k \in 1..Len(calls[i]) : calls[i][k].op = op /\ calls[i][k].res = res }

\* C28: in a run, index_document is called for an item only after the item
\* was acquired (found in the cache or downloaded in manifest mode, listed
\* from the directory in local mode), then passed validate_pdf, then yielded
\* a text of at least MinTextLen characters; it is called at most once per
\* item; and processed equals the number of index_document calls that
\* returned.
C28_SubmissionGuarded ==
    phase \in {"running", "done", "aborted"}
    => /\ \A i \in Items :
            /\ CountOp(i, "index_document") <= 1
            /\ \A s \in 1..Len(calls[i]) :
                  calls[i][s].op = "index_document"
                  => /\ work[i] \in pdf_dir
                     /\ \E v, t \in 1..(s - 1) :
                          /\ v < t
                          /\ calls[i][v] = [op |-> "validate_pdf", res |-> TRUE]
                          /\ calls[i][t] = [op |-> "extract_text", res |-> "text"]
                          /\ mode = "manifest"
                             => \E a \in 1..(v - 1) :
                                   \/ calls[i][a] = [op |-> "download",
                                                     res |-> "cached"]
                                   \/ calls[i][a] = [op |-> "fetch",
                                                     res |-> "saved"]
       /\ stats.processed
            = Cardinality({ i \in Items :
                              CallsAt(i, "index_document", TRUE) # {} })

\* A completed run of two items that were both submitted: the store took
\* one and refused the other.
C28_Witness ==
    /\ phase = "done" /\ NItems = 2
    /\ \E i, j \in Items :
          /\ EndedWith(i, "index_document", {TRUE})
          /\ EndedWith(j, "index_document", {FALSE})
    /\ stats.processed = 1
    /\ stats.errors = 1

\* C29: every name that extract_names emits comes from a match whose first
\* name and whose last name each have a dictionary match with sub-confidence
\* above 0.8 (the part is listed, or its best fuzzy score is above 80), and
\* its overall confidence is above 0.8: no candidate with an unmatched part
\* passes the keep rule.
C29_BothPartsMatched ==
    (arg.fn = "extract_names" /\ ret.called)
    => \A k \in 1..Len(ret.value) :
          /\ FracLess(Frac(8, 10), ret.value[k].confidence)
          /\ \E n \in 1..Len(arg.matches) :
                LET m == arg.matches[n]
                    Sub(lookup) == IF lookup.listed THEN Frac(1, 1)
                                   ELSE Frac(lookup.best, 100)
                IN /\ m.full_name = ret.value[k].full_name
                   /\ m.position = ret.value[k].position
                   /\ FracLess(Frac(8, 10), Sub(m.first))
                   /\ FracLess(Frac(8, 10), Sub(m.last))

\* extract_names emitted a name whose first name has only a fuzzy match,
\* just above the threshold, and dropped a candidate whose last name has no
\* match though its first name is listed.
C29_Witness ==
    /\ arg.fn = "extract_names" /\ ret.called
    /\ Len(arg.matches) = 2
    /\ arg.matches[1].first = [listed |-> FALSE, best |-> 81]
    /\ arg.matches[1].last = [listed |-> TRUE, best |-> 100]
    /\ arg.matches[2].first = [listed |-> TRUE, best |-> 100]
    /\ arg.matches[2].last = [listed |-> FALSE, best |-> 80]
    /\ Len(ret.value) = 1
    /\ ret.value[1].position = arg.matches[1].position
    /\ ret.value[1].confidence = Frac(181, 200)

\* C30: for a text of at least one word, a category with a matched keyword
\* gets a relevance_score of at least 0.3 and is emitted by classify_themes,
\* with all its occurrences; a category without a matched keyword is not:
\* the filter on the score removes nothing.
C30_MatchedThemesEmitted ==
    (arg.fn = "classify_themes" /\ ret.called /\ arg.text.total_words >= 1)
    => IF arg.text.slots = {}
         THEN ret.value = <<>>
         ELSE /\ Len(ret.value) = 1
              /\ ret.value[1].total_occurrences = Cardinality(arg.text.slots)
              /\ ~FracLess(ret.value[1].relevance_score, Frac(3, 10))

\* classify_themes emitted a category found once in a text of 40 * MaxWords
\* words, with a score below 0.8: every component is at its lowest.
C30_Witness ==
    /\ arg.fn = "classify_themes" /\ ret.called
    /\ arg.text.total_words = 40 * MaxWords
    /\ Cardinality(arg.text.slots) = 1
    /\ Len(ret.value) = 1
    /\ FracLess(ret.value[1].relevance_score, Frac(8, 10))

====
